---- MODULE Spec2Model ----
(***************************************************************************)
(* A model of the bitman crate: indexed bit access on primitive integers   *)
(* (trait AnyIntegerType, src/src/lib.rs), the bit-sequence container Bits *)
(* (src/src/bits.rs) and its conversions to and from integers and bytes.   *)
(*                                                                         *)
(* Integers are modelled with their width.  A value of type t is the       *)
(* mathematical integer in get_min(t)..get_max(t); the bitwise operators   *)
(* work on its two's-complement pattern of size_of(t)*8 binary digits.     *)
(* The 8 and 16 bit types are modelled; the wider types instantiate the    *)
(* same generic code with a larger size_of.                                *)
(***************************************************************************)
EXTENDS Integers, Sequences, FiniteSets

VARIABLES
    ty,        \* the primitive integer type T of the integer under test
    int,       \* the integer itself (a value of type ty)
    bits,      \* a Bits container: Bits.inner, a sequence of Bit(bool)
    bytes,     \* a byte array (Vec<u8> / &[u8])
    panicked,  \* TRUE once a call has panicked (the process is gone)
    last,      \* the last call: its name, arguments, pre-state and result
    steps      \* number of calls made so far

vars == <<ty, int, bits, bytes, panicked, last, steps>>

(***************************************************************************)
(* Bounds of the model.                                                    *)
(***************************************************************************)
\* number of calls in one run
MaxSteps == 2
\* longest Bits sequence of the indexed-access scenario
MaxLen == 3
\* longest byte array of the byte-conversion scenario
MaxBytes == 2

(***************************************************************************)
(* Primitive integer types.                                                *)
(***************************************************************************)
UnsignedTypes == {"u8", "u16"}

SignedTypes == {"i8", "i16"}

IntTypes == UnsignedTypes \cup SignedTypes

RECURSIVE Pow2(_)
Pow2(n) == IF n = 0 THEN 1 ELSE 2 * Pow2(n - 1)

\* core::mem::size_of::<T>(), in bytes
size_of(t) == IF t \in {"u8", "i8"} THEN 1 ELSE 2

\* the full bit width of T
Width(t) == size_of(t) * 8

get_max(t) == IF t \in SignedTypes THEN Pow2(Width(t) - 1) - 1 ELSE Pow2(Width(t)) - 1

get_min(t) == IF t \in SignedTypes THEN 0 - Pow2(Width(t) - 1) ELSE 0

Values(t) == get_min(t)..get_max(t)

\* two's-complement pattern of a value, and back
ToPattern(t, v) == IF v < 0 THEN v + Pow2(Width(t)) ELSE v

FromPattern(t, p) == IF p > get_max(t) THEN p - Pow2(Width(t)) ELSE p

\* binary digit of weight 2^k in a pattern
Digit(p, k) == (p \div Pow2(k)) % 2

RECURSIVE AndPattern(_, _, _)
AndPattern(a, b, n) ==
    IF n = 0 THEN 0
    ELSE (a % 2) * (b % 2) + 2 * AndPattern(a \div 2, b \div 2, n - 1)

RECURSIVE OrPattern(_, _, _)
OrPattern(a, b, n) ==
    IF n = 0 THEN 0
    ELSE (IF a % 2 = 1 \/ b % 2 = 1 THEN 1 ELSE 0)
         + 2 * OrPattern(a \div 2, b \div 2, n - 1)

\* the operators of core::ops the trait bounds require of T
BitAnd(t, a, b) == FromPattern(t, AndPattern(ToPattern(t, a), ToPattern(t, b), Width(t)))

BitOr(t, a, b) == FromPattern(t, OrPattern(ToPattern(t, a), ToPattern(t, b), Width(t)))

Not(t, a) == FromPattern(t, Pow2(Width(t)) - 1 - ToPattern(t, a))

\* a << k for k below the width: digits shifted out at the top are lost
Shl(t, a, k) == FromPattern(t, (ToPattern(t, a) * Pow2(k)) % Pow2(Width(t)))

\* a >> k, logical for the unsigned types that use it
Shr(t, a, k) == FromPattern(t, ToPattern(t, a) \div Pow2(k))

(***************************************************************************)
(* trait AnyIntegerType (src/src/lib.rs).                                  *)
(***************************************************************************)
is_signed(t) == get_min(t) # 0

\* max_settable_bits that counts the sign bit as settable
max_settable_bits_full_width(t) == size_of(t) * 8

max_settable_bits(t) == IF is_signed(t) THEN (size_of(t) * 8) - 1 ELSE size_of(t) * 8

max_bit_index(t) == max_settable_bits(t) - 1

\* The outcome of a call that may panic: whether it panicked, the value of
\* the receiver when the call ended, and the value returned (if any).
Outcome(p, self, ret) == [panic |-> p, self |-> self, ret |-> ret]

\* set_bit that clears with the mask itself instead of its complement
set_bit_unnegated_mask(t, self, bit_index, bit_value) ==
    IF max_bit_index(t) < bit_index THEN Outcome(TRUE, self, FALSE)
    ELSE
        LET mask == Shl(t, 1, max_bit_index(t) - bit_index)
        IN  IF bit_value THEN Outcome(FALSE, BitOr(t, self, mask), FALSE)
            ELSE Outcome(FALSE, BitAnd(t, self, mask), FALSE)

\* AnyIntegerType::set_bit(&mut self, bit_index, bit_value) -> Self
set_bit(t, self, bit_index, bit_value) ==
    IF max_bit_index(t) < bit_index THEN Outcome(TRUE, self, FALSE)
    ELSE
        LET left_shift_amount_to_bit == max_bit_index(t) - bit_index
            mask == Shl(t, 1, left_shift_amount_to_bit)
        IN  IF ~(left_shift_amount_to_bit <= max_bit_index(t)) THEN Outcome(TRUE, self, FALSE)
            ELSE IF ~(mask # 0) THEN Outcome(TRUE, self, FALSE)
            ELSE IF bit_value THEN Outcome(FALSE, BitOr(t, self, mask), FALSE)
            ELSE IF ~(Not(t, mask) # 0) THEN Outcome(TRUE, self, FALSE)
            ELSE Outcome(FALSE, BitAnd(t, self, Not(t, mask)), FALSE)

\* bit that counts the index from the least significant digit
bit_lsb_first(t, self, bit_number) ==
    IF max_bit_index(t) < bit_number THEN Outcome(TRUE, self, FALSE)
    ELSE Outcome(FALSE, self, BitAnd(t, self, Shl(t, 1, bit_number)) > 0)

\* AnyIntegerType::bit(&self, bit_number) -> bool
bit(t, self, bit_number) ==
    IF max_bit_index(t) < bit_number THEN Outcome(TRUE, self, FALSE)
    ELSE
        LET left_shift_amount_to_bit == max_bit_index(t) - bit_number
            mask == Shl(t, 1, left_shift_amount_to_bit)
        IN  Outcome(FALSE, self, BitAnd(t, self, mask) > 0)

\* impl From<WrappedInteger<T>> for Vec<bool>: the loop from index on,
\* new_vec being the vector built so far
RECURSIVE VecBoolFromLoop(_, _, _, _)
VecBoolFromLoop(t, item, index, new_vec) ==
    IF index >= max_settable_bits(t) THEN new_vec
    ELSE VecBoolFromLoop(t, item, index + 1,
             IF index >= Len(new_vec)
             THEN Append(new_vec, bit(t, item, index).ret)
             ELSE [new_vec EXCEPT ![index + 1] = bit(t, item, index).ret])

VecBool_from(t, item) == VecBoolFromLoop(t, item, 0, <<>>)

\* impl From<Vec<bool>> for WrappedInteger<T>: the loop over the elements
\* index.. of item, at most take of them, new_integer being the value so far
RECURSIVE WrappedIntegerFromLoop(_, _, _, _, _)
WrappedIntegerFromLoop(t, item, index, take, new_integer) ==
    IF index >= Len(item) \/ index >= take THEN Outcome(FALSE, new_integer, FALSE)
    ELSE LET r == set_bit(t, new_integer, index, item[index + 1])
         IN  IF r.panic THEN r
             ELSE WrappedIntegerFromLoop(t, item, index + 1, take, r.self)

\* from that takes one element fewer than there are settable bits
WrappedInteger_from_one_short(t, item) ==
    WrappedIntegerFromLoop(t, item, 0, max_settable_bits(t) - 1, 0)

\* impl From<Vec<bool>> for WrappedInteger<T>
WrappedInteger_from(t, item) ==
    WrappedIntegerFromLoop(t, item, 0, max_settable_bits(t), 0)

(***************************************************************************)
(* struct Bits<T> (src/src/lib.rs): an integer and a vector of booleans.   *)
(* A Bits<T> is a record of inner_integer and inner_vec_bool; its name     *)
(* never affects either and is left out.                                   *)
(***************************************************************************)
BitsT(inner_integer, inner_vec_bool) ==
    [inner_integer |-> inner_integer, inner_vec_bool |-> inner_vec_bool]

\* Bits::<T>::default()
BitsT_default(t) == BitsT(0, VecBool_from(t, 0))

\* Bits::<T>::new(name, inner_integer)
BitsT_new(t, inner_integer) == BitsT(inner_integer, VecBool_from(t, inner_integer))

\* Bits::<T>::from_integer(integer)
BitsT_from_integer(t, integer) == BitsT_new(t, integer)

\* Bits::<T>::from_named_vec_bool(name, vec_bool)
BitsT_from_named_vec_bool(t, vec_bool) ==
    IF Len(vec_bool) = max_settable_bits(t)
    THEN LET r == WrappedInteger_from(t, vec_bool)
         IN  Outcome(r.panic, BitsT(r.self, vec_bool), FALSE)
    ELSE Outcome(TRUE, BitsT_new(t, 0), FALSE)

\* Bits::<T>::from_vec_bool(vec_bool)
BitsT_from_vec_bool(t, vec_bool) == BitsT_from_named_vec_bool(t, vec_bool)

\* update_integer_from_vec_bool_bit with the mask counted from the least
\* significant digit
update_integer_lsb_first(t, inner_integer, bit_number, bit_value) ==
    LET mask == Shl(t, 1, bit_number)
    IN  IF bit_value THEN BitOr(t, inner_integer, mask)
        ELSE BitAnd(t, inner_integer, Not(t, mask))

\* Bits::update_integer_from_vec_bool_bit, for bit_number <= max_bit_index
update_integer_from_vec_bool_bit(t, inner_integer, bit_number, bit_value) ==
    LET mask == Shl(t, 1, max_bit_index(t) - bit_number)
    IN  IF bit_value THEN BitOr(t, inner_integer, mask)
        ELSE BitAnd(t, inner_integer, Not(t, mask))

\* Bits::<T>::set_bit(&mut self, bit_number, bit_value); indexing the vector
\* past its end panics
BitsT_set_bit(t, self, bit_number, bit_value) ==
    IF bit_number >= Len(self.inner_vec_bool) \/ bit_number > max_bit_index(t)
    THEN Outcome(TRUE, self, FALSE)
    ELSE Outcome(FALSE,
             BitsT(update_integer_from_vec_bool_bit(t, self.inner_integer,
                                                    bit_number, bit_value),
                   [self.inner_vec_bool EXCEPT ![bit_number + 1] = bit_value]),
             FALSE)

\* Bits::<T>::bit(&self, bit_number)
BitsT_bit(self, bit_number) ==
    IF bit_number >= Len(self.inner_vec_bool) THEN Outcome(TRUE, self, FALSE)
    ELSE Outcome(FALSE, self, self.inner_vec_bool[bit_number + 1])

\* Bits::<T>::as_integer(&self)
BitsT_as_integer(self) == self.inner_integer

\* *self.as_mut_integer() = value
BitsT_as_mut_integer_write(self, value) == BitsT(value, self.inner_vec_bool)

\* *self.deref_mut() = value
BitsT_deref_mut_write(self, value) == BitsT(value, self.inner_vec_bool)

\* self.as_mut_vec_bool()[index] = value
BitsT_as_mut_vec_bool_write(self, index, value) ==
    IF index >= Len(self.inner_vec_bool) THEN Outcome(TRUE, self, FALSE)
    ELSE Outcome(FALSE,
             BitsT(self.inner_integer, [self.inner_vec_bool EXCEPT ![index + 1] = value]),
             FALSE)

\* self.index_mut(0..len)[index] = value
BitsT_index_mut_write(self, index, value) ==
    IF index >= Len(self.inner_vec_bool) THEN Outcome(TRUE, self, FALSE)
    ELSE Outcome(FALSE,
             BitsT(self.inner_integer, [self.inner_vec_bool EXCEPT ![index + 1] = value]),
             FALSE)

(***************************************************************************)
(* struct Bits (src/src/bits.rs): inner is a Vec<Bit>, modelled as a       *)
(* sequence of booleans; Rust index i is position i + 1 of the sequence.   *)
(***************************************************************************)
\* <Bits as Index>::index / IndexMut::index_mut: self.get(index).unwrap()
InRange(b, index) == index < Len(b)

\* <Bits as BitMan>::bit(&self, index) -> Bit
Bits_bit(b, index) ==
    IF ~InRange(b, index) THEN Outcome(TRUE, b, FALSE)
    ELSE Outcome(FALSE, b, b[index + 1])

\* set_bit that ignores an index beyond the end instead of unwrapping
Bits_set_bit_lenient(b, index, value) ==
    IF ~InRange(b, index) THEN Outcome(FALSE, b, FALSE)
    ELSE Outcome(FALSE, [b EXCEPT ![index + 1] = value], FALSE)

\* <Bits as BitMan>::set_bit(&mut self, index, bit)
Bits_set_bit(b, index, value) ==
    IF ~InRange(b, index) THEN Outcome(TRUE, b, FALSE)
    ELSE Outcome(FALSE, [b EXCEPT ![index + 1] = value], FALSE)

(***************************************************************************)
(* trait BitMan on the unsigned primitive integers.  Its declaration and   *)
(* its implementation for integers are not among the source files; they    *)
(* are modelled from section 4.3 of the specification.                     *)
(***************************************************************************)
BitMan_bit_len(t) == size_of(t) * 8

BitMan_bit(t, self, index) ==
    IF index >= BitMan_bit_len(t) THEN Outcome(TRUE, self, FALSE)
    ELSE LET mask == Shl(t, 1, BitMan_bit_len(t) - 1 - index)
         IN  Outcome(FALSE, self, BitAnd(t, self, mask) # 0)

BitMan_set_bit(t, self, index, value) ==
    IF index >= BitMan_bit_len(t) THEN Outcome(TRUE, self, FALSE)
    ELSE LET mask == Shl(t, 1, BitMan_bit_len(t) - 1 - index)
         IN  IF value THEN Outcome(FALSE, BitOr(t, self, mask), FALSE)
             ELSE Outcome(FALSE, BitAnd(t, self, Not(t, mask)), FALSE)

BitMan_bits(t, self) == [i \in 1..BitMan_bit_len(t) |-> BitMan_bit(t, self, i - 1).ret]

(***************************************************************************)
(* macro impl_to_and_from_bits (src/src/bits.rs): Bits <-> integer.        *)
(***************************************************************************)
\* impl From<$new_type> for Bits: the loop from index on
RECURSIVE BitsFromLoop(_, _, _, _)
BitsFromLoop(t, value_to_convert, index, output_value) ==
    IF index >= size_of(t) THEN output_value
    ELSE BitsFromLoop(t, value_to_convert, index + 1,
             Append(output_value, BitMan_bit(t, value_to_convert, index).ret))

Bits_from(t, value_to_convert) == BitsFromLoop(t, value_to_convert, 0, <<>>)

\* impl From<&Bits> for $new_type: the loop that sets one bit per element
RECURSIVE FromBitsLoop(_, _, _, _)
FromBitsLoop(t, bits_to_convert, index, new_value) ==
    IF index >= Len(bits_to_convert) THEN new_value
    ELSE FromBitsLoop(t, bits_to_convert, index + 1,
             BitMan_set_bit(t, new_value, index, bits_to_convert[index + 1]).self)

\* impl From<&Bits> for $new_type
RECURSIVE Int_from(_, _)
Int_from(t, bits_to_convert) ==
    IF Len(bits_to_convert) > size_of(t) * 8
    THEN Int_from(t, SubSeq(bits_to_convert,
                            Len(bits_to_convert) - size_of(t) + 1,
                            Len(bits_to_convert)))
    ELSE LET new_value == FromBitsLoop(t, bits_to_convert, 0, 0)
         IN  IF Len(bits_to_convert) < size_of(t)
             THEN Shr(t, new_value, size_of(t) - Len(bits_to_convert))
             ELSE new_value

(***************************************************************************)
(* impl Bits (src/src/bits.rs): conversions to and from byte arrays.       *)
(* A byte is a u8 value, 0..255.                                           *)
(***************************************************************************)
\* Vec::reverse / Iterator::rev
Reverse(s) == [i \in 1..Len(s) |-> s[Len(s) + 1 - i]]

\* Bits::to_be_bytes: the for loop over self.inner.iter().enumerate()
RECURSIVE ToBeBytesFor(_, _, _, _, _)
ToBeBytesFor(self, count, bits_acc, bytes_acc, current_length) ==
    IF count >= Len(self)
    THEN [bytes |-> bytes_acc, current_length |-> current_length]
    ELSE LET pushed == Append(bits_acc, self[count + 1])
         IN  IF count % 8 = 0
             THEN ToBeBytesFor(self, count + 1, pushed,
                               Append(bytes_acc, Int_from("u8", pushed)),
                               current_length + 8)
             ELSE ToBeBytesFor(self, count + 1, pushed, bytes_acc, current_length)

\* Bits::to_be_bytes: the outer loop
RECURSIVE ToBeBytesLoop(_, _, _)
ToBeBytesLoop(self, bytes_acc, current_length) ==
    LET r == ToBeBytesFor(self, 0, <<>>, bytes_acc, current_length)
    IN  IF r.current_length >= Len(self) THEN r.bytes
        ELSE ToBeBytesLoop(self, r.bytes, r.current_length)

to_be_bytes(self) == ToBeBytesLoop(self, <<>>, 0)

to_le_bytes(self) == Reverse(to_be_bytes(self))

\* Bits::to_be_bytes_of_le_bits: the for loop, which starts at the first bit
\* of self on every pass and breaks once it has pushed eight bits
RECURSIVE LeBitsFor(_, _, _)
LeBitsFor(self, count, bits_acc) ==
    IF count >= Len(self) THEN bits_acc
    ELSE LET pushed == Append(bits_acc, self[count + 1])
         IN  IF count >= 7 THEN Reverse(pushed)
             ELSE LeBitsFor(self, count + 1, pushed)

\* Bits::to_be_bytes_of_le_bits: the outer loop
RECURSIVE ToBeBytesOfLeBitsLoop(_, _, _)
ToBeBytesOfLeBitsLoop(self, bytes_acc, current_length) ==
    LET pushed == Append(bytes_acc, Int_from("u8", LeBitsFor(self, 0, <<>>)))
    IN  IF current_length + 8 >= Len(self) THEN pushed
        ELSE ToBeBytesOfLeBitsLoop(self, pushed, current_length + 8)

to_be_bytes_of_le_bits(self) == ToBeBytesOfLeBitsLoop(self, <<>>, 0)

to_le_bytes_of_le_bits(self) == Reverse(to_be_bytes_of_le_bits(self))

\* Bits::from_be_bytes: bits.append(&mut current_u8.bits().inner) per byte
RECURSIVE FromBeBytesLoop(_, _, _)
FromBeBytesLoop(slice_of_bytes, k, acc) ==
    IF k > Len(slice_of_bytes) THEN acc
    ELSE FromBeBytesLoop(slice_of_bytes, k + 1,
                         acc \o BitMan_bits("u8", slice_of_bytes[k]))

from_be_bytes(slice_of_bytes) == FromBeBytesLoop(slice_of_bytes, 1, <<>>)

from_le_bytes(slice_of_bytes) == from_be_bytes(Reverse(slice_of_bytes))

\* Bits::from_be_bytes_of_le_bits: the loop that fills vec_of_bits
RECURSIVE FromLeBitsLoop(_, _, _)
FromLeBitsLoop(slice_of_bytes, k, vec_of_bits) ==
    IF k > Len(slice_of_bytes) THEN vec_of_bits
    ELSE FromLeBitsLoop(slice_of_bytes, k + 1,
                        vec_of_bits \o Bits_from("u8", slice_of_bytes[k]))

\* Bits::from_be_bytes_of_le_bits: vec_of_bits is built and dropped; the value
\* returned is Bits::new(&Vec::new())
from_be_bytes_of_le_bits(slice_of_bytes) ==
    LET vec_of_bits == FromLeBitsLoop(slice_of_bytes, 1, <<>>)
    IN  <<>>

from_le_bytes_of_le_bits(slice_of_bytes) ==
    from_be_bytes_of_le_bits(Reverse(slice_of_bytes))

(***************************************************************************)
(* struct Bit (src/src/bit.rs) and the operators of Bits (src/src/bits.rs).*)
(***************************************************************************)
\* impl BitAnd / BitOr / BitXor / Not for Bit
Bit_bitand(self, rhs) == self /\ rhs

Bit_bitor(self, rhs) == self \/ rhs

\* bitxor that returns rhs whatever self is
Bit_bitxor_ignoring_self(self, rhs) == rhs

Bit_bitxor(self, rhs) == IF self THEN ~rhs ELSE rhs

Bit_not(self) == ~self

\* impl BitAndAssign / BitOrAssign / BitXorAssign for Bit: self afterwards
Bit_bitand_assign(self, rhs) == self /\ rhs

Bit_bitor_assign(self, rhs) == self \/ rhs

Bit_bitxor_assign(self, rhs) == IF self THEN ~rhs ELSE rhs

\* impl Shl<usize> / Shl<u32> for Bit
Bit_shl(self, rhs) == IF rhs = 0 THEN self ELSE FALSE

Bit_shl_u32(self, rhs) == IF rhs = 0 THEN self ELSE FALSE

\* impl ShlAssign<usize> / ShlAssign<u32> for Bit: self afterwards
Bit_shl_assign(self, rhs) == IF rhs # 0 THEN FALSE ELSE self

Bit_shl_assign_u32(self, rhs) == IF rhs # 0 THEN FALSE ELSE self

\* impl Zero for Bit: zero()
Bit_zero == FALSE

\* impl CheckedShl for Bit: some = FALSE is None, out is the Bit in Some
Bit_checked_shl(self, rhs) ==
    IF rhs = 0 THEN [some |-> TRUE, out |-> self]
    ELSE [some |-> TRUE, out |-> Bit_zero]

\* shr that gives the false-bit for every count
Bit_shr_always_false(self, rhs) == FALSE

\* impl Shr<usize> for Bit
Bit_shr(self, rhs) == IF rhs = 0 THEN self ELSE FALSE

\* impl ShrAssign<usize> for Bit: self afterwards
Bit_shr_assign(self, rhs) == IF rhs # 0 THEN FALSE ELSE self

\* mul that returns rhs whatever self is
Bit_mul_ignoring_self(self, rhs) == rhs

\* impl Mul for Bit
Bit_mul(self, rhs) == IF self THEN rhs ELSE FALSE

\* div that divides by the false-bit without complaint
Bit_div_unguarded(self, rhs) == Outcome(FALSE, self, FALSE)

\* impl Div for Bit
Bit_div(self, rhs) ==
    IF rhs THEN Outcome(FALSE, self, FALSE) ELSE Outcome(TRUE, self, FALSE)

\* impl Add for Bit
Bit_add(self, rhs) ==
    IF self THEN (IF rhs THEN FALSE ELSE TRUE)
    ELSE IF rhs THEN TRUE ELSE FALSE

\* impl Sub for Bit
Bit_sub(self, rhs) ==
    IF self THEN (IF rhs THEN FALSE ELSE self) ELSE FALSE

\* impl BitMan for Bit: bit_len, bit and set_bit; the index is not looked at
Bit_bit_len(self) == 1

Bit_bit(self, index) == Outcome(FALSE, self, self)

Bit_set_bit(self, index, bit_value) == Outcome(FALSE, bit_value, FALSE)

\* impl BitAnd for Bits: the while loop from index_counter on
RECURSIVE BitsAndLoop(_, _, _, _)
BitsAndLoop(self, rhs, index_counter, new_bits) ==
    IF ~(index_counter < Len(self)) THEN new_bits
    ELSE IF ~(index_counter < Len(rhs)) THEN new_bits
    ELSE BitsAndLoop(self, rhs, index_counter + 1,
             Append(new_bits, Bit_bitand(self[index_counter + 1], rhs[index_counter + 1])))

\* bitand that keeps on with false bits where rhs has run out
Bits_bitand_zero_extended(self, rhs) ==
    [i \in 1..Len(self) |-> IF i <= Len(rhs) THEN self[i] /\ rhs[i] ELSE FALSE]

Bits_bitand(self, rhs) == BitsAndLoop(self, rhs, 0, <<>>)

\* impl BitOr for Bits: the while loop from index_counter on
RECURSIVE BitsOrLoop(_, _, _, _)
BitsOrLoop(self, rhs, index_counter, new_bits) ==
    IF ~(index_counter < Len(self)) THEN new_bits
    ELSE IF ~(index_counter < Len(rhs)) THEN new_bits
    ELSE BitsOrLoop(self, rhs, index_counter + 1,
             Append(new_bits, Bit_bitor(self[index_counter + 1], rhs[index_counter + 1])))

Bits_bitor(self, rhs) == BitsOrLoop(self, rhs, 0, <<>>)

\* impl BitXor for Bits: the while loop from index_counter on
RECURSIVE BitsXorLoop(_, _, _, _)
BitsXorLoop(self, rhs, index_counter, new_bits) ==
    IF ~(index_counter < Len(self)) THEN new_bits
    ELSE IF ~(index_counter < Len(rhs)) THEN new_bits
    ELSE BitsXorLoop(self, rhs, index_counter + 1,
             Append(new_bits, Bit_bitxor(self[index_counter + 1], rhs[index_counter + 1])))

Bits_bitxor(self, rhs) == BitsXorLoop(self, rhs, 0, <<>>)

\* impl Not for Bits: the for loop from index on
RECURSIVE BitsNotLoop(_, _, _)
BitsNotLoop(self, index, new_bits) ==
    IF ~(index < Len(self)) THEN new_bits
    ELSE BitsNotLoop(self, index + 1,
             Append(new_bits, IF self[index + 1] THEN TRUE ELSE FALSE))

Bits_not(self) == BitsNotLoop(self, 0, <<>>)

\* Vec::drain(..end), the drained elements dropped: what is left of v
DrainTo(v, end) == SubSeq(v, end + 1, Len(v))

\* for _ in 0..rhs { push(Bit(false)) }
PushFalse(v, rhs) == v \o [i \in 1..rhs |-> FALSE]

\* shl that drains the front and appends nothing
Bits_shl_shortening(self, rhs) ==
    IF rhs > Len(self) THEN Outcome(TRUE, self, FALSE)
    ELSE Outcome(FALSE, DrainTo(self, rhs), FALSE)

\* impl Shl<usize> for Bits; drain panics when its end is past the length
Bits_shl(self, rhs) ==
    IF rhs > Len(self) THEN Outcome(TRUE, self, FALSE)
    ELSE Outcome(FALSE, PushFalse(DrainTo(self, rhs), rhs), FALSE)

\* impl Shl<u32> for Bits
Bits_shl_u32(self, rhs) ==
    IF rhs > Len(self) THEN Outcome(TRUE, self, FALSE)
    ELSE Outcome(FALSE, PushFalse(DrainTo(self, rhs), rhs), FALSE)

\* impl Shl<u32> for &Bits: self.to_owned() << rhs
Bits_ref_shl_u32(self, rhs) == Bits_shl_u32(self, rhs)

\* impl Shr<usize> for Bits
Bits_shr(self, rhs) ==
    IF rhs > Len(self) THEN Outcome(TRUE, self, FALSE)
    ELSE Outcome(FALSE, PushFalse(DrainTo(self, rhs), rhs), FALSE)

\* impl Shr<u32> for Bits
Bits_shr_u32(self, rhs) ==
    IF rhs > Len(self) THEN Outcome(TRUE, self, FALSE)
    ELSE Outcome(FALSE, PushFalse(DrainTo(self, rhs), rhs), FALSE)

\* impl BitMan for Bits: bit_len
Bits_bit_len(self) == Len(self)

\* impl CheckedShl for Bits: some = FALSE is None, out is the Bits in Some
Bits_checked_shl(self, rhs) ==
    IF rhs > Bits_bit_len(self)
    THEN [panic |-> FALSE, some |-> FALSE, out |-> <<>>]
    ELSE LET r == Bits_ref_shl_u32(self, rhs)
         IN  [panic |-> r.panic, some |-> ~r.panic,
              out |-> IF r.panic THEN <<>> ELSE r.self]

\* impl Add for Bits: the for loop over index..end; index past the last
\* element makes get(index).unwrap() panic
RECURSIVE BitsAddLoop(_, _, _, _, _, _)
BitsAddLoop(self, rhs, index, end, carry, output_value) ==
    IF ~(index < end) THEN Outcome(FALSE, output_value, FALSE)
    ELSE IF ~(index < Len(self)) \/ ~(index < Len(rhs))
         THEN Outcome(TRUE, output_value, FALSE)
    ELSE LET s == self[index + 1]
             r == rhs[index + 1]
         IN  IF ~s
             THEN IF carry
                  THEN BitsAddLoop(self, rhs, index + 1, end, r,
                                   Append(output_value, TRUE))
                  ELSE BitsAddLoop(self, rhs, index + 1, end, carry,
                                   Append(output_value, r))
             ELSE BitsAddLoop(self, rhs, index + 1, end, carry \/ r,
                              Append(output_value, Bit_not(r)))

\* impl Add for Bits: the loop runs over self.inner.len()..0, then reverse
Bits_add(self, rhs) ==
    LET r == BitsAddLoop(self, rhs, Len(self), 0, FALSE, <<>>)
    IN  Outcome(r.panic, Reverse(r.self), FALSE)

\* core::mem::size_of::<Bits>(): a Vec is three words, of 4 or of 8 bytes
SizeOfBits == {3 * 4, 3 * 8}

\* <Bits as Zero>::zero(), size_of_self being size_of::<Self>()
Bits_zero(size_of_self) == [i \in 1..(size_of_self * 8) |-> FALSE]

\* <Bits as Zero>::is_zero(&self)
Bits_is_zero(self) == \A i \in 1..Len(self) : ~self[i]

\* <Bits as One>::one()
Bits_one(size_of_self) ==
    LET output == [i \in 1..(size_of_self * 8) |-> FALSE]
    IN  Bits_set_bit(output, size_of_self * 7, TRUE)

\* <Bits as One>::is_one(&self): self.inner.len() - 1 underflows on an empty
\* Bits (a panic at once, or a range no Vec has and a panic in unwrap), and
\* get(self.inner.len()) is None for every Bits, so its unwrap panics
\* whenever the left operand of && is true
Bits_is_one(self) ==
    IF Len(self) = 0 THEN Outcome(TRUE, self, FALSE)
    ELSE LET left == (\A i \in 1..(Len(self) - 1) : ~self[i]) \/ Len(self) = 1
         IN  IF left THEN Outcome(TRUE, self, FALSE)
             ELSE Outcome(FALSE, self, FALSE)

\* <Bits as BitMan>::set_bits: the for loop over the elements k.. of bits,
\* index being the position written next; indexing past the end panics
RECURSIVE BitsSetBitsLoop(_, _, _, _)
BitsSetBitsLoop(self, index, bits_arg, k) ==
    IF k >= Len(bits_arg) THEN Outcome(FALSE, self, FALSE)
    ELSE IF ~InRange(self, index) THEN Outcome(TRUE, self, FALSE)
    ELSE BitsSetBitsLoop([self EXCEPT ![index + 1] = bits_arg[k + 1]],
                         index + 1, bits_arg, k + 1)

\* set_bits that writes every source bit to the start position
Bits_set_bits_not_advancing(self, index, bits_arg) ==
    IF bits_arg = <<>> THEN Outcome(FALSE, self, FALSE)
    ELSE IF ~InRange(self, index) THEN Outcome(TRUE, self, FALSE)
    ELSE Outcome(FALSE, [self EXCEPT ![index + 1] = bits_arg[Len(bits_arg)]], FALSE)

\* <Bits as BitMan>::set_bits(&mut self, index, bits)
Bits_set_bits(self, index, bits_arg) == BitsSetBitsLoop(self, index, bits_arg, 0)

\* next that takes the first bit instead of the last
Bits_next_from_front(self) ==
    IF self = <<>> THEN [self |-> self, some |-> FALSE, out |-> <<>>]
    ELSE [self |-> Tail(self), some |-> TRUE, out |-> <<Head(self)>>]

\* <Bits as Iterator>::next: self.inner.pop()
Bits_next(self) ==
    IF self = <<>> THEN [self |-> self, some |-> FALSE, out |-> <<>>]
    ELSE [self |-> SubSeq(self, 1, Len(self) - 1), some |-> TRUE,
          out |-> <<self[Len(self)]>>]

(***************************************************************************)
(* u128, the domain of Bits multiplication.  A u128 is its 128 binary      *)
(* digits, most significant first: element i + 1 is the bit of index i.    *)
(***************************************************************************)
U128Bytes == 16

U128Width == U128Bytes * 8

U128_zero == [i \in 1..U128Width |-> FALSE]

\* the digit of weight 2^k of a u128
DigitAt(v, k) == v[U128Width - k]

\* BitMan::bit / BitMan::set_bit on u128 (trait BitMan on the integers)
U128_bit(self, index) == self[index + 1]

U128_set_bit(self, index, value) == [self EXCEPT ![index + 1] = value]

\* new_value >>= n
U128_shr(v, n) == [i \in 1..U128Width |-> IF i > n THEN v[i - n] ELSE FALSE]

\* impl From<&Bits> for u128: the loop that sets bit index to element index
\* of bits_to_convert, for every index below its length, in new_value
U128FromBitsLoop(bits_to_convert, new_value) ==
    [i \in 1..U128Width |->
        IF i <= Len(bits_to_convert)
        THEN U128_set_bit(new_value, i - 1, bits_to_convert[i])[i]
        ELSE new_value[i]]

\* impl From<&Bits> for u128
RECURSIVE U128_from(_)
U128_from(bits_to_convert) ==
    IF Len(bits_to_convert) > U128Bytes * 8
    THEN U128_from(SubSeq(bits_to_convert,
                          Len(bits_to_convert) - U128Bytes + 1,
                          Len(bits_to_convert)))
    ELSE LET new_value == U128FromBitsLoop(bits_to_convert, U128_zero)
         IN  IF Len(bits_to_convert) < U128Bytes
             THEN U128_shr(new_value, U128Bytes - Len(bits_to_convert))
             ELSE new_value

\* impl From<u128> for Bits: the loop from index on
RECURSIVE BitsFromU128Loop(_, _, _)
BitsFromU128Loop(value_to_convert, index, output_value) ==
    IF index >= U128Bytes THEN output_value
    ELSE BitsFromU128Loop(value_to_convert, index + 1,
             Append(output_value, U128_bit(value_to_convert, index)))

Bits_from_u128(value_to_convert) == BitsFromU128Loop(value_to_convert, 0, <<>>)

\* byte j of a u128, the digits of weight 2^(8j) .. 2^(8j+7), as a number
Limb(v, j) ==
    LET w(d) == IF DigitAt(v, 8 * j + d) THEN Pow2(d) ELSE 0
    IN  w(0) + w(1) + w(2) + w(3) + w(4) + w(5) + w(6) + w(7)

Limbs(v) == [j \in 0..(U128Bytes - 1) |-> Limb(v, j)]

\* sum of lx[i] * ly[k - i] over the byte positions i..k
RECURSIVE ColumnSum(_, _, _, _)
ColumnSum(lx, ly, k, i) ==
    IF i > k \/ i >= U128Bytes THEN 0
    ELSE (IF k - i < U128Bytes THEN lx[i] * ly[k - i] ELSE 0)
             + ColumnSum(lx, ly, k, i + 1)

\* the exact product, byte by byte from position k up with a carry: a
\* function from 0..2*U128Bytes-1 (the byte position) to the byte
RECURSIVE ProductFrom(_, _, _, _, _)
ProductFrom(lx, ly, k, carry, acc) ==
    IF k >= 2 * U128Bytes THEN acc
    ELSE LET sum == ColumnSum(lx, ly, k, 0) + carry
         IN  ProductFrom(lx, ly, k + 1, sum \div 256,
                         [acc EXCEPT ![k] = sum % 256])

Product(x, y) ==
    ProductFrom(Limbs(x), Limbs(y), 0, 0, [k \in 0..(2 * U128Bytes - 1) |-> 0])

\* u128 * u128: the low 128 digits, and whether the product overflows (a
\* panic where overflow checks are compiled in, a wrapped value where not)
U128_mul(x, y) ==
    LET p == Product(x, y)
    IN  [overflow |-> \E k \in U128Bytes..(2 * U128Bytes - 1) : p[k] # 0,
         wrapped |-> [i \in 1..U128Width |->
                         Digit(p[(U128Width - i) \div 8], (U128Width - i) % 8) = 1]]

\* impl Mul for Bits; checks says whether overflow checks are compiled in
Bits_mul(self, rhs, checks) ==
    LET output_as_u128 == U128_mul(U128_from(self), U128_from(rhs))
    IN  IF output_as_u128.overflow /\ checks
        THEN Outcome(TRUE, self, FALSE)
        ELSE Outcome(FALSE, Bits_from_u128(output_as_u128.wrapped), FALSE)

(***************************************************************************)
(* The state machine.  Every action is one call of the public interface;   *)
(* a panic ends the run.                                                   *)
(***************************************************************************)
NoCall ==
    [op |-> "none", index |-> 0, value |-> FALSE, pre_int |-> 0,
     pre_bits |-> <<>>, pre_bytes |-> <<>>, prev_op |-> "none", ret |-> FALSE,
     arg |-> <<>>, out |-> <<>>]

Call(op, index, value, ret) ==
    [op |-> op, index |-> index, value |-> value, pre_int |-> int,
     pre_bits |-> bits, pre_bytes |-> bytes, prev_op |-> last.op, ret |-> ret,
     arg |-> <<>>, out |-> <<>>]

\* a call that takes a second Bits (arg) or returns a Bits (out)
CallBits(op, index, arg, ret, out) ==
    [op |-> op, index |-> index, value |-> FALSE, pre_int |-> int,
     pre_bits |-> bits, pre_bytes |-> bytes, prev_op |-> last.op, ret |-> ret,
     arg |-> arg, out |-> out]

CanCall == ~panicked /\ steps < MaxSteps

\* sequences of booleans of length n, and of length at most n
BoolSeqs(n) == [1..n -> BOOLEAN]

BoolSeqsUpTo(n) == UNION {BoolSeqs(k) : k \in 0..n}

\* the integers a run starts from: every value of an 8 bit type, and the
\* least value and the alternating pattern 0x5555 of a 16 bit type
StartValues(t) ==
    IF size_of(t) = 1 THEN Values(t)
    ELSE {get_min(t), FromPattern(t, 21845)}

\* the indices a caller passes: every index of the full width, and one beyond
Indices(t) == 0..Width(t)

InitCommon == panicked = FALSE /\ last = NoCall /\ steps = 0

\* an integer of any modelled type, or a Bits of any content
InitIndexed ==
    /\ InitCommon
    /\ bytes = <<>>
    /\ \/ ty \in IntTypes /\ int \in StartValues(ty) /\ bits = <<>>
       \/ ty = "u8" /\ int = 0 /\ bits \in BoolSeqsUpTo(MaxLen)

IntSetBit ==
    /\ CanCall
    /\ \E i \in Indices(ty), b \in BOOLEAN :
          LET r == set_bit(ty, int, i, b)
          IN  /\ int' = r.self
              /\ panicked' = r.panic
              /\ last' = Call("int.set_bit", i, b, FALSE)
    /\ steps' = steps + 1
    /\ UNCHANGED <<ty, bits, bytes>>

IntBit ==
    /\ CanCall
    /\ \E i \in Indices(ty) :
          LET r == bit(ty, int, i)
          IN  /\ int' = r.self
              /\ panicked' = r.panic
              /\ last' = Call("int.bit", i, FALSE, r.ret)
    /\ steps' = steps + 1
    /\ UNCHANGED <<ty, bits, bytes>>

BitsSetBit ==
    /\ CanCall
    /\ \E i \in 0..MaxLen, b \in BOOLEAN :
          LET r == Bits_set_bit(bits, i, b)
          IN  /\ bits' = r.self
              /\ panicked' = r.panic
              /\ last' = Call("Bits.set_bit", i, b, FALSE)
    /\ steps' = steps + 1
    /\ UNCHANGED <<ty, int, bytes>>

BitsBit ==
    /\ CanCall
    /\ \E i \in 0..MaxLen :
          LET r == Bits_bit(bits, i)
          IN  /\ bits' = r.self
              /\ panicked' = r.panic
              /\ last' = Call("Bits.bit", i, FALSE, r.ret)
    /\ steps' = steps + 1
    /\ UNCHANGED <<ty, int, bytes>>

Next == IntSetBit \/ IntBit \/ BitsSetBit \/ BitsBit

Spec == InitIndexed /\ [][Next]_vars

(***************************************************************************)
(* Conversions between an unsigned integer and a Bits: SpecConv.           *)
(***************************************************************************)
\* the integers converted: every u8, and a spread of u16 values
ConvValues(t) ==
    IF size_of(t) = 1 THEN Values(t)
    ELSE {v \in Values(t) : v % 251 = 0 \/ v = get_max(t)}

InitConv ==
    /\ InitCommon
    /\ ty \in UnsignedTypes /\ int \in ConvValues(ty)
    /\ bits = <<>> /\ bytes = <<>>

\* Bits::from(value)
BitsFromInt ==
    /\ CanCall
    /\ bits' = Bits_from(ty, int)
    /\ last' = Call("Bits::from", 0, FALSE, FALSE)
    /\ steps' = steps + 1
    /\ UNCHANGED <<ty, int, bytes, panicked>>

\* value.bits()
IntBits ==
    /\ CanCall
    /\ bits' = BitMan_bits(ty, int)
    /\ last' = Call("int.bits", 0, FALSE, FALSE)
    /\ steps' = steps + 1
    /\ UNCHANGED <<ty, int, bytes, panicked>>

\* <$new_type>::from(&bits)
IntFromBits ==
    /\ CanCall
    /\ int' = Int_from(ty, bits)
    /\ last' = Call("T::from", 0, FALSE, FALSE)
    /\ steps' = steps + 1
    /\ UNCHANGED <<ty, bits, bytes, panicked>>

NextConv == BitsFromInt \/ IntBits \/ IntFromBits

SpecConv == InitConv /\ [][NextConv]_vars

(***************************************************************************)
(* Conversions between a Bits and a byte array: SpecBytes.                 *)
(***************************************************************************)
\* the bytes a byte array is made of: 0x00, 0x01, 0x80, 0xA5, 0xFF
ByteSamples == {0, 1, 128, 165, 255}

ByteArrays == UNION {[1..n -> ByteSamples] : n \in 0..MaxBytes}

\* the eight bits of a byte, most significant first
ByteAsBits(v) == [i \in 1..8 |-> Digit(v, 8 - i) = 1]

RECURSIVE BytesAsBits(_)
BytesAsBits(x) == IF x = <<>> THEN <<>> ELSE ByteAsBits(Head(x)) \o BytesAsBits(Tail(x))

\* the Bits a run starts from: every short sequence, every sequence of eight
\* bits, and the sequences of whole bytes
BitsStart ==
    BoolSeqsUpTo(MaxLen) \cup BoolSeqs(8) \cup {BytesAsBits(x) : x \in ByteArrays}

InitBytes ==
    /\ InitCommon
    /\ ty = "u8" /\ int = 0
    /\ \/ bits \in BitsStart /\ bytes = <<>>
       \/ bits = <<>> /\ bytes \in ByteArrays

\* Bits::to_be_bytes(&self) -> Vec<u8>
ToBeBytes ==
    /\ CanCall
    /\ bytes' = to_be_bytes(bits)
    /\ last' = Call("to_be_bytes", 0, FALSE, FALSE)
    /\ steps' = steps + 1
    /\ UNCHANGED <<ty, int, bits, panicked>>

\* Bits::to_le_bytes(&self) -> Vec<u8>
ToLeBytes ==
    /\ CanCall
    /\ bytes' = to_le_bytes(bits)
    /\ last' = Call("to_le_bytes", 0, FALSE, FALSE)
    /\ steps' = steps + 1
    /\ UNCHANGED <<ty, int, bits, panicked>>

\* Bits::to_be_bytes_of_le_bits(&self) -> Vec<u8>
ToBeBytesOfLeBits ==
    /\ CanCall
    /\ bytes' = to_be_bytes_of_le_bits(bits)
    /\ last' = Call("to_be_bytes_of_le_bits", 0, FALSE, FALSE)
    /\ steps' = steps + 1
    /\ UNCHANGED <<ty, int, bits, panicked>>

\* Bits::to_le_bytes_of_le_bits(&self) -> Vec<u8>
ToLeBytesOfLeBits ==
    /\ CanCall
    /\ bytes' = to_le_bytes_of_le_bits(bits)
    /\ last' = Call("to_le_bytes_of_le_bits", 0, FALSE, FALSE)
    /\ steps' = steps + 1
    /\ UNCHANGED <<ty, int, bits, panicked>>

\* Bits::from_be_bytes(slice_of_bytes) -> Bits
FromBeBytes ==
    /\ CanCall
    /\ bits' = from_be_bytes(bytes)
    /\ last' = Call("from_be_bytes", 0, FALSE, FALSE)
    /\ steps' = steps + 1
    /\ UNCHANGED <<ty, int, bytes, panicked>>

\* Bits::from_le_bytes(slice_of_bytes) -> Bits
FromLeBytes ==
    /\ CanCall
    /\ bits' = from_le_bytes(bytes)
    /\ last' = Call("from_le_bytes", 0, FALSE, FALSE)
    /\ steps' = steps + 1
    /\ UNCHANGED <<ty, int, bytes, panicked>>

\* Bits::from_be_bytes_of_le_bits(slice_of_bytes) -> Bits
FromBeBytesOfLeBits ==
    /\ CanCall
    /\ bits' = from_be_bytes_of_le_bits(bytes)
    /\ last' = Call("from_be_bytes_of_le_bits", 0, FALSE, FALSE)
    /\ steps' = steps + 1
    /\ UNCHANGED <<ty, int, bytes, panicked>>

\* Bits::from_le_bytes_of_le_bits(slice_of_bytes) -> Bits
FromLeBytesOfLeBits ==
    /\ CanCall
    /\ bits' = from_le_bytes_of_le_bits(bytes)
    /\ last' = Call("from_le_bytes_of_le_bits", 0, FALSE, FALSE)
    /\ steps' = steps + 1
    /\ UNCHANGED <<ty, int, bytes, panicked>>

NextBytes ==
    \/ ToBeBytes \/ ToLeBytes \/ ToBeBytesOfLeBits \/ ToLeBytesOfLeBits
    \/ FromBeBytes \/ FromLeBytes \/ FromBeBytesOfLeBits \/ FromLeBytesOfLeBits

SpecBytes == InitBytes /\ [][NextBytes]_vars

(***************************************************************************)
(* The operators of Bits: SpecOps.  An operator takes self by value; the   *)
(* Bits it returns becomes the Bits of the next call.                      *)
(***************************************************************************)
InitOps ==
    /\ InitCommon
    /\ ty = "u8" /\ int = 0 /\ bytes = <<>>
    /\ bits \in BoolSeqsUpTo(MaxLen)

\* shift counts: within the length, equal to it, and past it
ShiftCounts == 0..(MaxLen + 1)

\* self & rhs
BitsAnd ==
    /\ CanCall
    /\ \E rhs \in BoolSeqsUpTo(MaxLen) :
          /\ bits' = Bits_bitand(bits, rhs)
          /\ last' = CallBits("Bits.bitand", 0, rhs, FALSE, <<>>)
    /\ steps' = steps + 1
    /\ UNCHANGED <<ty, int, bytes, panicked>>

\* self | rhs
BitsOr ==
    /\ CanCall
    /\ \E rhs \in BoolSeqsUpTo(MaxLen) :
          /\ bits' = Bits_bitor(bits, rhs)
          /\ last' = CallBits("Bits.bitor", 0, rhs, FALSE, <<>>)
    /\ steps' = steps + 1
    /\ UNCHANGED <<ty, int, bytes, panicked>>

\* self ^ rhs
BitsXor ==
    /\ CanCall
    /\ \E rhs \in BoolSeqsUpTo(MaxLen) :
          /\ bits' = Bits_bitxor(bits, rhs)
          /\ last' = CallBits("Bits.bitxor", 0, rhs, FALSE, <<>>)
    /\ steps' = steps + 1
    /\ UNCHANGED <<ty, int, bytes, panicked>>

\* !self
BitsNot ==
    /\ CanCall
    /\ bits' = Bits_not(bits)
    /\ last' = CallBits("Bits.not", 0, <<>>, FALSE, <<>>)
    /\ steps' = steps + 1
    /\ UNCHANGED <<ty, int, bytes, panicked>>

\* self << rhs, rhs: usize
BitsShl ==
    /\ CanCall
    /\ \E rhs \in ShiftCounts :
          LET r == Bits_shl(bits, rhs)
          IN  /\ bits' = r.self
              /\ panicked' = r.panic
              /\ last' = CallBits("Bits.shl", rhs, <<>>, FALSE, <<>>)
    /\ steps' = steps + 1
    /\ UNCHANGED <<ty, int, bytes>>

\* self << rhs, rhs: u32
BitsShlU32 ==
    /\ CanCall
    /\ \E rhs \in ShiftCounts :
          LET r == Bits_shl_u32(bits, rhs)
          IN  /\ bits' = r.self
              /\ panicked' = r.panic
              /\ last' = CallBits("Bits.shl_u32", rhs, <<>>, FALSE, <<>>)
    /\ steps' = steps + 1
    /\ UNCHANGED <<ty, int, bytes>>

\* self >> rhs, rhs: usize
BitsShr ==
    /\ CanCall
    /\ \E rhs \in ShiftCounts :
          LET r == Bits_shr(bits, rhs)
          IN  /\ bits' = r.self
              /\ panicked' = r.panic
              /\ last' = CallBits("Bits.shr", rhs, <<>>, FALSE, <<>>)
    /\ steps' = steps + 1
    /\ UNCHANGED <<ty, int, bytes>>

\* self >> rhs, rhs: u32
BitsShrU32 ==
    /\ CanCall
    /\ \E rhs \in ShiftCounts :
          LET r == Bits_shr_u32(bits, rhs)
          IN  /\ bits' = r.self
              /\ panicked' = r.panic
              /\ last' = CallBits("Bits.shr_u32", rhs, <<>>, FALSE, <<>>)
    /\ steps' = steps + 1
    /\ UNCHANGED <<ty, int, bytes>>

\* self.checked_shl(rhs): takes &self, the receiver stays
BitsCheckedShl ==
    /\ CanCall
    /\ \E rhs \in ShiftCounts :
          LET r == Bits_checked_shl(bits, rhs)
          IN  /\ panicked' = r.panic
              /\ last' = CallBits("Bits.checked_shl", rhs, <<>>, r.some, r.out)
    /\ steps' = steps + 1
    /\ UNCHANGED <<ty, int, bits, bytes>>

\* self + rhs
BitsAdd ==
    /\ CanCall
    /\ \E rhs \in BoolSeqsUpTo(MaxLen) :
          LET r == Bits_add(bits, rhs)
          IN  /\ bits' = r.self
              /\ panicked' = r.panic
              /\ last' = CallBits("Bits.add", 0, rhs, FALSE, <<>>)
    /\ steps' = steps + 1
    /\ UNCHANGED <<ty, int, bytes>>

NextOps ==
    \/ BitsAnd \/ BitsOr \/ BitsXor \/ BitsNot
    \/ BitsShl \/ BitsShlU32 \/ BitsShr \/ BitsShrU32 \/ BitsCheckedShl
    \/ BitsAdd

SpecOps == InitOps /\ [][NextOps]_vars

(***************************************************************************)
(* Multiplication of Bits: SpecMul.                                        *)
(***************************************************************************)
\* a Bits of 128 elements whose digits spell n < 2^16
WideBits(n) ==
    [i \in 1..U128Width |-> U128Width - i < 16 /\ Digit(n, U128Width - i) = 1]

\* a Bits of 128 elements whose first 16 elements spell n < 2^16
TopBits(n) == [i \in 1..U128Width |-> i <= 16 /\ Digit(n, 16 - i) = 1]

\* a Bits longer than 128 elements
LongBits == [i \in 1..(U128Width + 1) |-> i > U128Width - 1]

MulOperands ==
    {<<>>, <<TRUE>>, <<TRUE, FALSE, TRUE>>, LongBits}
        \cup {WideBits(n) : n \in {0, 1, 3, 256}}
        \cup {TopBits(n) : n \in {1, 32768}}

InitMul ==
    /\ InitCommon
    /\ ty = "u8" /\ int = 0 /\ bytes = <<>>
    /\ bits \in MulOperands

\* self * rhs
BitsMul ==
    /\ CanCall
    /\ \E rhs \in MulOperands, checks \in BOOLEAN :
          LET r == Bits_mul(bits, rhs, checks)
          IN  /\ bits' = r.self
              /\ panicked' = r.panic
              /\ last' = CallBits("Bits.mul", 0, rhs, FALSE, <<>>)
    /\ steps' = steps + 1
    /\ UNCHANGED <<ty, int, bytes>>

NextMul == BitsMul

SpecMul == InitMul /\ [][NextMul]_vars

(***************************************************************************)
(* The integer-backed Bits<T> of lib.rs: SpecWrapped.  int is its          *)
(* inner_integer and bits its inner_vec_bool.                              *)
(***************************************************************************)
\* the integers written or constructed from
SampleValues(t) == {v \in Values(t) : v \in {get_min(t), -1, 0, 1, 85, get_max(t)}}

\* the vectors constructed from: of the right length, and one element short
SampleVecs(t) ==
    {VecBool_from(t, v) : v \in SampleValues(t)}
        \cup {[i \in 1..max_bit_index(t) |-> TRUE]}

\* the types T of the Bits<T> explored: one unsigned and one signed
WrappedTypes == {"u8", "i8"}

InitWrapped ==
    /\ InitCommon
    /\ bytes = <<>>
    /\ ty \in WrappedTypes
    /\ int = BitsT_default(ty).inner_integer
    /\ bits = BitsT_default(ty).inner_vec_bool

\* Bits::<T>::new / from_integer / from_named_integer
BitsTNew ==
    /\ CanCall
    /\ \E v \in SampleValues(ty) :
          LET r == BitsT_from_integer(ty, v)
          IN  /\ int' = r.inner_integer
              /\ bits' = r.inner_vec_bool
              /\ last' = Call("BitsT::from_integer", 0, FALSE, FALSE)
    /\ steps' = steps + 1
    /\ UNCHANGED <<ty, bytes, panicked>>

\* Bits::<T>::from_vec_bool / from_named_vec_bool
BitsTFromVecBool ==
    /\ CanCall
    /\ \E v \in SampleVecs(ty) :
          LET r == BitsT_from_vec_bool(ty, v)
          IN  /\ int' = r.self.inner_integer
              /\ bits' = r.self.inner_vec_bool
              /\ panicked' = r.panic
              /\ last' = CallBits("BitsT::from_vec_bool", 0, v, FALSE, <<>>)
    /\ steps' = steps + 1
    /\ UNCHANGED <<ty, bytes>>

\* Bits::<T>::set_bit
BitsTSetBit ==
    /\ CanCall
    /\ \E i \in Indices(ty), b \in BOOLEAN :
          LET r == BitsT_set_bit(ty, BitsT(int, bits), i, b)
          IN  /\ int' = r.self.inner_integer
              /\ bits' = r.self.inner_vec_bool
              /\ panicked' = r.panic
              /\ last' = Call("BitsT.set_bit", i, b, FALSE)
    /\ steps' = steps + 1
    /\ UNCHANGED <<ty, bytes>>

\* a write through as_mut_integer()
BitsTAsMutInteger ==
    /\ CanCall
    /\ \E v \in SampleValues(ty) :
          LET r == BitsT_as_mut_integer_write(BitsT(int, bits), v)
          IN  /\ int' = r.inner_integer
              /\ bits' = r.inner_vec_bool
              /\ last' = Call("BitsT.as_mut_integer", 0, FALSE, FALSE)
    /\ steps' = steps + 1
    /\ UNCHANGED <<ty, bytes, panicked>>

\* a write through DerefMut
BitsTDerefMut ==
    /\ CanCall
    /\ \E v \in SampleValues(ty) :
          LET r == BitsT_deref_mut_write(BitsT(int, bits), v)
          IN  /\ int' = r.inner_integer
              /\ bits' = r.inner_vec_bool
              /\ last' = Call("BitsT.deref_mut", 0, FALSE, FALSE)
    /\ steps' = steps + 1
    /\ UNCHANGED <<ty, bytes, panicked>>

\* a write of one element through as_mut_vec_bool()
BitsTAsMutVecBool ==
    /\ CanCall
    /\ \E i \in Indices(ty), b \in BOOLEAN :
          LET r == BitsT_as_mut_vec_bool_write(BitsT(int, bits), i, b)
          IN  /\ int' = r.self.inner_integer
              /\ bits' = r.self.inner_vec_bool
              /\ panicked' = r.panic
              /\ last' = Call("BitsT.as_mut_vec_bool", i, b, FALSE)
    /\ steps' = steps + 1
    /\ UNCHANGED <<ty, bytes>>

\* a write of one element through IndexMut
BitsTIndexMut ==
    /\ CanCall
    /\ \E i \in Indices(ty), b \in BOOLEAN :
          LET r == BitsT_index_mut_write(BitsT(int, bits), i, b)
          IN  /\ int' = r.self.inner_integer
              /\ bits' = r.self.inner_vec_bool
              /\ panicked' = r.panic
              /\ last' = Call("BitsT.index_mut", i, b, FALSE)
    /\ steps' = steps + 1
    /\ UNCHANGED <<ty, bytes>>

NextWrapped ==
    \/ BitsTNew \/ BitsTFromVecBool \/ BitsTSetBit
    \/ BitsTAsMutInteger \/ BitsTDerefMut
    \/ BitsTAsMutVecBool \/ BitsTIndexMut

SpecWrapped == InitWrapped /\ [][NextWrapped]_vars

(***************************************************************************)
(* WrappedInteger<T> to Vec<bool> and back: SpecVecBool.                   *)
(***************************************************************************)
InitVecBool ==
    /\ InitCommon
    /\ bytes = <<>> /\ bits = <<>>
    /\ ty \in IntTypes
    /\ int \in StartValues(ty) \cup SampleValues(ty)

\* Vec::<bool>::from(WrappedInteger(int))
VecBoolFrom ==
    /\ CanCall
    /\ bits' = VecBool_from(ty, int)
    /\ last' = Call("Vec::from", 0, FALSE, FALSE)
    /\ steps' = steps + 1
    /\ UNCHANGED <<ty, int, bytes, panicked>>

\* WrappedInteger::<T>::from(bits)
WrappedIntegerFrom ==
    /\ CanCall
    /\ LET r == WrappedInteger_from(ty, bits)
       IN  /\ int' = r.self
           /\ panicked' = r.panic
    /\ last' = Call("WrappedInteger::from", 0, FALSE, FALSE)
    /\ steps' = steps + 1
    /\ UNCHANGED <<ty, bits, bytes>>

NextVecBool == VecBoolFrom \/ WrappedIntegerFrom

SpecVecBool == InitVecBool /\ [][NextVecBool]_vars

(***************************************************************************)
(* A single Bit and its operators: SpecBit.  The Bit is the one element    *)
(* of bits; an operator that takes self by value leaves its result there.  *)
(***************************************************************************)
InitBit ==
    /\ InitCommon
    /\ ty = "u8" /\ int = 0 /\ bytes = <<>>
    /\ bits \in BoolSeqs(1)

\* self & rhs
BitBitAnd ==
    /\ CanCall
    /\ \E rhs \in BOOLEAN :
          /\ bits' = <<Bit_bitand(bits[1], rhs)>>
          /\ last' = Call("Bit.bitand", 0, rhs, FALSE)
    /\ steps' = steps + 1
    /\ UNCHANGED <<ty, int, bytes, panicked>>

\* self &= rhs
BitBitAndAssign ==
    /\ CanCall
    /\ \E rhs \in BOOLEAN :
          /\ bits' = <<Bit_bitand_assign(bits[1], rhs)>>
          /\ last' = Call("Bit.bitand_assign", 0, rhs, FALSE)
    /\ steps' = steps + 1
    /\ UNCHANGED <<ty, int, bytes, panicked>>

\* self | rhs
BitBitOr ==
    /\ CanCall
    /\ \E rhs \in BOOLEAN :
          /\ bits' = <<Bit_bitor(bits[1], rhs)>>
          /\ last' = Call("Bit.bitor", 0, rhs, FALSE)
    /\ steps' = steps + 1
    /\ UNCHANGED <<ty, int, bytes, panicked>>

\* self |= rhs
BitBitOrAssign ==
    /\ CanCall
    /\ \E rhs \in BOOLEAN :
          /\ bits' = <<Bit_bitor_assign(bits[1], rhs)>>
          /\ last' = Call("Bit.bitor_assign", 0, rhs, FALSE)
    /\ steps' = steps + 1
    /\ UNCHANGED <<ty, int, bytes, panicked>>

\* self ^ rhs
BitBitXor ==
    /\ CanCall
    /\ \E rhs \in BOOLEAN :
          /\ bits' = <<Bit_bitxor(bits[1], rhs)>>
          /\ last' = Call("Bit.bitxor", 0, rhs, FALSE)
    /\ steps' = steps + 1
    /\ UNCHANGED <<ty, int, bytes, panicked>>

\* self ^= rhs
BitBitXorAssign ==
    /\ CanCall
    /\ \E rhs \in BOOLEAN :
          /\ bits' = <<Bit_bitxor_assign(bits[1], rhs)>>
          /\ last' = Call("Bit.bitxor_assign", 0, rhs, FALSE)
    /\ steps' = steps + 1
    /\ UNCHANGED <<ty, int, bytes, panicked>>

\* !self
BitNot ==
    /\ CanCall
    /\ bits' = <<Bit_not(bits[1])>>
    /\ last' = Call("Bit.not", 0, FALSE, FALSE)
    /\ steps' = steps + 1
    /\ UNCHANGED <<ty, int, bytes, panicked>>

\* self << rhs, rhs: usize
BitShl ==
    /\ CanCall
    /\ \E rhs \in ShiftCounts :
          /\ bits' = <<Bit_shl(bits[1], rhs)>>
          /\ last' = Call("Bit.shl", rhs, FALSE, FALSE)
    /\ steps' = steps + 1
    /\ UNCHANGED <<ty, int, bytes, panicked>>

\* self <<= rhs, rhs: usize
BitShlAssign ==
    /\ CanCall
    /\ \E rhs \in ShiftCounts :
          /\ bits' = <<Bit_shl_assign(bits[1], rhs)>>
          /\ last' = Call("Bit.shl_assign", rhs, FALSE, FALSE)
    /\ steps' = steps + 1
    /\ UNCHANGED <<ty, int, bytes, panicked>>

\* self << rhs, rhs: u32
BitShlU32 ==
    /\ CanCall
    /\ \E rhs \in ShiftCounts :
          /\ bits' = <<Bit_shl_u32(bits[1], rhs)>>
          /\ last' = Call("Bit.shl_u32", rhs, FALSE, FALSE)
    /\ steps' = steps + 1
    /\ UNCHANGED <<ty, int, bytes, panicked>>

\* self <<= rhs, rhs: u32
BitShlAssignU32 ==
    /\ CanCall
    /\ \E rhs \in ShiftCounts :
          /\ bits' = <<Bit_shl_assign_u32(bits[1], rhs)>>
          /\ last' = Call("Bit.shl_assign_u32", rhs, FALSE, FALSE)
    /\ steps' = steps + 1
    /\ UNCHANGED <<ty, int, bytes, panicked>>

\* self.checked_shl(rhs): takes &self, the receiver stays
BitCheckedShl ==
    /\ CanCall
    /\ \E rhs \in ShiftCounts :
          LET r == Bit_checked_shl(bits[1], rhs)
          IN  last' = CallBits("Bit.checked_shl", rhs, <<>>, r.some, <<r.out>>)
    /\ steps' = steps + 1
    /\ UNCHANGED <<ty, int, bits, bytes, panicked>>

\* self >> rhs, rhs: usize
BitShr ==
    /\ CanCall
    /\ \E rhs \in ShiftCounts :
          /\ bits' = <<Bit_shr(bits[1], rhs)>>
          /\ last' = Call("Bit.shr", rhs, FALSE, FALSE)
    /\ steps' = steps + 1
    /\ UNCHANGED <<ty, int, bytes, panicked>>

\* self >>= rhs, rhs: usize
BitShrAssign ==
    /\ CanCall
    /\ \E rhs \in ShiftCounts :
          /\ bits' = <<Bit_shr_assign(bits[1], rhs)>>
          /\ last' = Call("Bit.shr_assign", rhs, FALSE, FALSE)
    /\ steps' = steps + 1
    /\ UNCHANGED <<ty, int, bytes, panicked>>

\* self * rhs
BitMul ==
    /\ CanCall
    /\ \E rhs \in BOOLEAN :
          /\ bits' = <<Bit_mul(bits[1], rhs)>>
          /\ last' = Call("Bit.mul", 0, rhs, FALSE)
    /\ steps' = steps + 1
    /\ UNCHANGED <<ty, int, bytes, panicked>>

\* self / rhs
BitDiv ==
    /\ CanCall
    /\ \E rhs \in BOOLEAN :
          LET r == Bit_div(bits[1], rhs)
          IN  /\ bits' = <<r.self>>
              /\ panicked' = r.panic
              /\ last' = Call("Bit.div", 0, rhs, FALSE)
    /\ steps' = steps + 1
    /\ UNCHANGED <<ty, int, bytes>>

\* self + rhs
BitAdd ==
    /\ CanCall
    /\ \E rhs \in BOOLEAN :
          /\ bits' = <<Bit_add(bits[1], rhs)>>
          /\ last' = Call("Bit.add", 0, rhs, FALSE)
    /\ steps' = steps + 1
    /\ UNCHANGED <<ty, int, bytes, panicked>>

\* self - rhs
BitSub ==
    /\ CanCall
    /\ \E rhs \in BOOLEAN :
          /\ bits' = <<Bit_sub(bits[1], rhs)>>
          /\ last' = Call("Bit.sub", 0, rhs, FALSE)
    /\ steps' = steps + 1
    /\ UNCHANGED <<ty, int, bytes, panicked>>

\* the indices a Bit is asked for: its own, and ones past it
BitIndices == 0..MaxLen

\* self.bit_len(); int takes the length returned
BitBitLen ==
    /\ CanCall
    /\ int' = Bit_bit_len(bits[1])
    /\ last' = Call("Bit.bit_len", 0, FALSE, FALSE)
    /\ steps' = steps + 1
    /\ UNCHANGED <<ty, bits, bytes, panicked>>

\* self.bit(&index)
BitBit ==
    /\ CanCall
    /\ \E i \in BitIndices :
          LET r == Bit_bit(bits[1], i)
          IN  /\ bits' = <<r.self>>
              /\ panicked' = r.panic
              /\ last' = Call("Bit.bit", i, FALSE, r.ret)
    /\ steps' = steps + 1
    /\ UNCHANGED <<ty, int, bytes>>

\* self.set_bit(&index, &bit)
BitSetBit ==
    /\ CanCall
    /\ \E i \in BitIndices, b \in BOOLEAN :
          LET r == Bit_set_bit(bits[1], i, b)
          IN  /\ bits' = <<r.self>>
              /\ panicked' = r.panic
              /\ last' = Call("Bit.set_bit", i, b, FALSE)
    /\ steps' = steps + 1
    /\ UNCHANGED <<ty, int, bytes>>

NextBit ==
    \/ BitBitAnd \/ BitBitAndAssign \/ BitBitOr \/ BitBitOrAssign
    \/ BitBitXor \/ BitBitXorAssign \/ BitNot
    \/ BitShl \/ BitShlAssign \/ BitShlU32 \/ BitShlAssignU32
    \/ BitCheckedShl \/ BitShr \/ BitShrAssign
    \/ BitMul \/ BitDiv \/ BitAdd \/ BitSub
    \/ BitBitLen \/ BitBit \/ BitSetBit

SpecBit == InitBit /\ [][NextBit]_vars

(***************************************************************************)
(* Zero and One of Bits: SpecZeroOne.  int is size_of::<Bits>() of the     *)
(* build.                                                                  *)
(***************************************************************************)
InitZeroOne ==
    /\ InitCommon
    /\ ty = "u8" /\ bytes = <<>>
    /\ int \in SizeOfBits
    /\ bits \in BoolSeqsUpTo(MaxLen)

\* Bits::zero()
BitsZero ==
    /\ CanCall
    /\ bits' = Bits_zero(int)
    /\ last' = Call("Bits::zero", 0, FALSE, FALSE)
    /\ steps' = steps + 1
    /\ UNCHANGED <<ty, int, bytes, panicked>>

\* Bits::one()
BitsOne ==
    /\ CanCall
    /\ LET r == Bits_one(int)
       IN  /\ bits' = r.self
           /\ panicked' = r.panic
    /\ last' = Call("Bits::one", 0, FALSE, FALSE)
    /\ steps' = steps + 1
    /\ UNCHANGED <<ty, int, bytes>>

\* self.is_zero()
BitsIsZero ==
    /\ CanCall
    /\ last' = Call("Bits.is_zero", 0, FALSE, Bits_is_zero(bits))
    /\ steps' = steps + 1
    /\ UNCHANGED <<ty, int, bits, bytes, panicked>>

\* self.is_one()
BitsIsOne ==
    /\ CanCall
    /\ LET r == Bits_is_one(bits)
       IN  /\ panicked' = r.panic
           /\ last' = Call("Bits.is_one", 0, FALSE, r.ret)
    /\ steps' = steps + 1
    /\ UNCHANGED <<ty, int, bits, bytes>>

NextZeroOne == BitsZero \/ BitsOne \/ BitsIsZero \/ BitsIsOne

SpecZeroOne == InitZeroOne /\ [][NextZeroOne]_vars

(***************************************************************************)
(* set_bits of Bits: SpecSetBits.  One call from every starting Bits.      *)
(***************************************************************************)
InitSetBits ==
    /\ InitCommon
    /\ ty = "u8" /\ int = 0 /\ bytes = <<>>
    /\ bits \in BoolSeqsUpTo(MaxLen)

\* self.set_bits(index, &src)
BitsSetBits ==
    /\ ~panicked /\ steps < 1
    /\ \E index \in 0..(MaxLen + 1), src \in BoolSeqsUpTo(MaxLen) :
          LET r == Bits_set_bits(bits, index, src)
          IN  /\ bits' = r.self
              /\ panicked' = r.panic
              /\ last' = CallBits("Bits.set_bits", index, src, FALSE, <<>>)
    /\ steps' = steps + 1
    /\ UNCHANGED <<ty, int, bytes>>

NextSetBits == BitsSetBits

SpecSetBits == InitSetBits /\ [][NextSetBits]_vars

(***************************************************************************)
(* Bits<T> of lib.rs changed through set_bit alone: SpecSetBitOnly.        *)
(***************************************************************************)
\* the Bits<T> that default, new, from_integer and from_vec_bool return
Constructed(t) ==
    {BitsT_default(t)}
        \cup {BitsT_new(t, v) : v \in SampleValues(t)}
        \cup {BitsT_from_integer(t, v) : v \in SampleValues(t)}
        \cup {BitsT_from_vec_bool(t, v).self :
                 v \in {w \in SampleVecs(t) : ~BitsT_from_vec_bool(t, w).panic}}

InitSetBitOnly ==
    /\ InitCommon
    /\ bytes = <<>>
    /\ ty \in WrappedTypes
    /\ \E b \in Constructed(ty) :
          /\ int = b.inner_integer
          /\ bits = b.inner_vec_bool

NextSetBitOnly == BitsTSetBit

SpecSetBitOnly == InitSetBitOnly /\ [][NextSetBitOnly]_vars

(***************************************************************************)
(* A Bits used as an Iterator: SpecIter.  next() is called until the Bits  *)
(* is used up and MaxSteps times more; int counts the calls that returned  *)
(* None, and last.arg keeps the Bits the iteration started from.           *)
(***************************************************************************)
InitIter ==
    /\ InitCommon
    /\ ty = "u8" /\ int = 0 /\ bytes = <<>>
    /\ bits \in BoolSeqsUpTo(MaxLen) \cup BoolSeqs(8)

\* self.next()
BitsNext ==
    /\ ~panicked /\ int < MaxSteps
    /\ LET r == Bits_next(bits)
       IN  /\ bits' = r.self
           /\ int' = IF r.some THEN int ELSE int + 1
           /\ last' = CallBits("Bits.next", 0,
                               IF last.op = "none" THEN bits ELSE last.arg,
                               r.some, r.out)
    /\ steps' = steps + 1
    /\ UNCHANGED <<ty, bytes, panicked>>

NextIter == BitsNext

SpecIter == InitIter /\ [][NextIter]_vars

(***************************************************************************)
(* Indexed bit access (C1 - C4), checked under Spec.                       *)
(***************************************************************************)
Addressable(t) == 0..max_bit_index(t)

\* C1: after set_bit(i, b) with an addressable index i, on any integer type
\* and from any value, bit(i) returns b and bit(j) returns what it returned
\* before the call for every other addressable j.
C1_SetBitReadBack ==
    (last.op = "int.set_bit" /\ last.index \in Addressable(ty)) =>
        /\ ~panicked
        /\ bit(ty, int, last.index) = Outcome(FALSE, int, last.value)
        /\ \A j \in Addressable(ty) \ {last.index} :
              bit(ty, int, j).ret = bit(ty, last.pre_int, j).ret

\* a set_bit on a signed 16 bit value that changed the bit, other bits being set
C1_Witness ==
    /\ last.op = "int.set_bit" /\ ~panicked /\ ty = "i16"
    /\ last.index \in Addressable(ty)
    /\ bit(ty, last.pre_int, last.index).ret # last.value
    /\ \E j \in Addressable(ty) \ {last.index} : bit(ty, int, j).ret
    /\ \E j \in Addressable(ty) \ {last.index} : ~bit(ty, int, j).ret

\* C2: indexing is most-significant-bit first: on an unsigned type of width W,
\* bit(i) returns true exactly when the binary digit of weight 2^(W-1-i) of the
\* value is 1; set_bit(7, true) on the u8 value 0 gives 1, whose bit sequence
\* is seven false bits followed by a true bit.
C2_MsbFirst ==
    /\ (last.op = "int.bit" /\ ty \in UnsignedTypes /\ last.index < Width(ty)) =>
          /\ ~panicked
          /\ last.ret = (Digit(ToPattern(ty, int), Width(ty) - 1 - last.index) = 1)
    /\ (last.op = "int.set_bit" /\ ty = "u8" /\ last.pre_int = 0
            /\ last.index = 7 /\ last.value) =>
          /\ int = 1
          /\ VecBool_from(ty, int) = <<FALSE, FALSE, FALSE, FALSE, FALSE, FALSE, FALSE, TRUE>>

\* bit(0) read true on a u16 whose least significant digit is 0
C2_Witness ==
    /\ last.op = "int.bit" /\ ty = "u16" /\ ~panicked
    /\ last.index = 0 /\ last.ret /\ int % 2 = 0

\* C3: an indexed read or write with an index out of range panics and leaves
\* the target as it was: on an integer when the index is greater than
\* max_bit_index, on a Bits when the index is not below its length.
C3_OutOfRangePanics ==
    /\ (last.op \in {"int.set_bit", "int.bit"} /\ last.index > max_bit_index(ty)) =>
          panicked /\ int = last.pre_int
    /\ (last.op \in {"Bits.set_bit", "Bits.bit"} /\ last.index >= Len(last.pre_bits)) =>
          panicked /\ bits = last.pre_bits

\* a write just beyond the end of a Bits that holds bits
C3_Witness ==
    /\ last.op = "Bits.set_bit" /\ panicked
    /\ Len(last.pre_bits) > 0 /\ last.index = Len(last.pre_bits)

\* C4: a signed type of width W has W-1 settable bits and highest index W-2
\* (an unsigned type W and W-1), and a set_bit with an index in range leaves
\* the sign of a signed value as it was.
C4_SignBitKept ==
    /\ ty \in SignedTypes =>
          max_settable_bits(ty) = Width(ty) - 1 /\ max_bit_index(ty) = Width(ty) - 2
    /\ ty \in UnsignedTypes =>
          max_settable_bits(ty) = Width(ty) /\ max_bit_index(ty) = Width(ty) - 1
    /\ (last.op = "int.set_bit" /\ ty \in SignedTypes
            /\ last.index <= Width(ty) - 2) =>
          ~panicked /\ ((int < 0) = (last.pre_int < 0))

\* the second of two writes to a negative value, clearing its highest settable bit
C4_Witness ==
    /\ last.op = "int.set_bit" /\ last.prev_op = "int.set_bit" /\ ~panicked
    /\ ty \in SignedTypes /\ int < 0
    /\ last.index = 0 /\ ~last.value /\ int # last.pre_int

(***************************************************************************)
(* Integer <-> Bits conversions (C5, C6), checked under SpecConv.          *)
(***************************************************************************)
\* C5: the Bits made from an integer of width W, by bits() or by Bits::from,
\* has length W and its element i is the integer's bit(i), most significant
\* bit first.
C5_BitsOfIntegerHasWidth ==
    last.op \in {"Bits::from", "int.bits"} =>
        /\ Len(bits) = Width(ty)
        /\ \A i \in 0..(Width(ty) - 1) :
              i < Len(bits) => bits[i + 1] = bit(ty, int, i).ret

\* C6: an integer converted to a Bits and that Bits converted back to the
\* integer type gives the integer it started from.
C6_IntBitsIntRoundTrip ==
    (last.op = "T::from" /\ last.prev_op = "Bits::from") => int = last.pre_int

(***************************************************************************)
(* Byte conversions (C7 - C10), checked under SpecBytes.                   *)
(***************************************************************************)
\* C7: for a Bits b whose length is a multiple of 8,
\* from_be_bytes(to_be_bytes(b)) is b.
C7_BeBytesRoundTrip ==
    (last.op = "from_be_bytes" /\ last.prev_op = "to_be_bytes"
        /\ Len(last.pre_bits) % 8 = 0) => bits = last.pre_bits

\* C8: for a Bits b whose length is a multiple of 8,
\* from_le_bytes(to_le_bytes(b)) is b.
C8_LeBytesRoundTrip ==
    (last.op = "from_le_bytes" /\ last.prev_op = "to_le_bytes"
        /\ Len(last.pre_bits) % 8 = 0) => bits = last.pre_bits

\* C9: for a byte array x, from_be_bytes(x).to_be_bytes() is x and
\* from_be_bytes(x).to_le_bytes() is x reversed.
C9_BytesBitsBytes ==
    /\ (last.op = "to_be_bytes" /\ last.prev_op = "from_be_bytes") =>
          bytes = last.pre_bytes
    /\ (last.op = "to_le_bytes" /\ last.prev_op = "from_be_bytes") =>
          bytes = Reverse(last.pre_bytes)

\* C10: from_be_bytes_of_le_bits(x) has 8 * len(x) bits, the eight bits of
\* each byte least significant first, and to_be_bytes_of_le_bits gives x
\* back from it; likewise for the from_le_bytes_of_le_bits /
\* to_le_bytes_of_le_bits pair.
C10_LeBitsInvertible ==
    /\ last.op = "from_be_bytes_of_le_bits" =>
          /\ Len(bits) = 8 * Len(bytes)
          /\ \A k \in 1..Len(bytes) : \A j \in 0..7 :
                (8 * (k - 1) + j + 1 <= Len(bits)) =>
                    bits[8 * (k - 1) + j + 1] = (Digit(bytes[k], j) = 1)
    /\ last.op = "from_le_bytes_of_le_bits" => Len(bits) = 8 * Len(bytes)
    /\ (last.op = "to_be_bytes_of_le_bits"
            /\ last.prev_op = "from_be_bytes_of_le_bits") => bytes = last.pre_bytes
    /\ (last.op = "to_le_bytes_of_le_bits"
            /\ last.prev_op = "from_le_bytes_of_le_bits") => bytes = last.pre_bytes

(***************************************************************************)
(* Operators of Bits (C11 - C17), checked under SpecOps and SpecMul.       *)
(***************************************************************************)
Min(a, b) == IF a <= b THEN a ELSE b

\* C11: a & b, a | b and a ^ b have length min(len(a), len(b)) and element i
\* is a[i] AND / OR / XOR b[i]; what the longer operand holds beyond that
\* length plays no part.
C11_ElementWise ==
    /\ last.op \in {"Bits.bitand", "Bits.bitor", "Bits.bitxor"} =>
          Len(bits) = Min(Len(last.pre_bits), Len(last.arg))
    /\ last.op = "Bits.bitand" =>
          \A i \in 1..Len(bits) : bits[i] = (last.pre_bits[i] /\ last.arg[i])
    /\ last.op = "Bits.bitor" =>
          \A i \in 1..Len(bits) : bits[i] = (last.pre_bits[i] \/ last.arg[i])
    /\ last.op = "Bits.bitxor" =>
          \A i \in 1..Len(bits) : bits[i] = (last.pre_bits[i] # last.arg[i])

\* an AND of a longer left operand, whose excess bit is true, with a shorter one
C11_Witness ==
    /\ last.op = "Bits.bitand"
    /\ Len(last.pre_bits) > Len(last.arg) /\ Len(last.arg) > 0
    /\ last.pre_bits[Len(last.pre_bits)]
    /\ \E i \in 1..Len(bits) : bits[i]

\* C12: !b has the length of b and every element i is the complement of b[i].
C12_NotComplements ==
    last.op = "Bits.not" =>
        /\ Len(bits) = Len(last.pre_bits)
        /\ \A i \in 1..Len(last.pre_bits) : bits[i] = ~last.pre_bits[i]

\* r is b shifted left by count: same length, r[i] = b[i + count] below
\* len(b) - count, false-bits in the last count places (indices from 0)
IsLeftShift(b, count, r) ==
    /\ Len(r) = Len(b)
    /\ \A i \in 0..(Len(b) - 1) :
          r[i + 1] = IF i < Len(b) - count THEN b[i + count + 1] ELSE FALSE

\* C13: b << count (usize or u32) with count <= len(b) keeps the length,
\* result[i] = b[i + count] for i < len(b) - count, and the last count
\* elements are false-bits.
C13_ShlKeepsLength ==
    (last.op \in {"Bits.shl", "Bits.shl_u32"} /\ last.index <= Len(last.pre_bits)) =>
        /\ ~panicked
        /\ IsLeftShift(last.pre_bits, last.index, bits)

\* a left shift by a count strictly inside the length that moves a true-bit
C13_Witness ==
    /\ last.op \in {"Bits.shl", "Bits.shl_u32"}
    /\ 0 < last.index /\ last.index < Len(last.pre_bits)
    /\ ~panicked
    /\ \E i \in 1..Len(bits) : bits[i]

\* C14: b >> count with count <= len(b) keeps the length and mirrors the left
\* shift: result[i] = false for i < count and result[i] = b[i - count] for
\* count <= i < len(b); so for 0 < count < len(b) it differs from b << count
\* whenever b has a true-bit that only one of them keeps.
C14_ShrMirrorsShl ==
    (last.op \in {"Bits.shr", "Bits.shr_u32"} /\ last.index <= Len(last.pre_bits)) =>
        /\ ~panicked
        /\ Len(bits) = Len(last.pre_bits)
        /\ \A i \in 0..(Len(last.pre_bits) - 1) :
              bits[i + 1] = IF i < last.index THEN FALSE
                            ELSE last.pre_bits[i - last.index + 1]

\* C15: an unchecked shift by a count past the length panics; checked_shl
\* never panics, returns None whenever count >= len(b), and otherwise returns
\* the Bits of the unchecked left shift and leaves the receiver as it was.
C15_CheckedShlBounds ==
    /\ (last.op \in {"Bits.shl", "Bits.shl_u32", "Bits.shr", "Bits.shr_u32"}
          /\ last.index > Len(last.pre_bits)) => panicked
    /\ last.op = "Bits.checked_shl" =>
          /\ ~panicked
          /\ bits = last.pre_bits
          /\ IF last.index >= Len(last.pre_bits)
             THEN ~last.ret
             ELSE last.ret /\ IsLeftShift(last.pre_bits, last.index, last.out)

\* operands of the addition property
AddSamples == {0, 1, 2, 127, 128}

\* C16: for u8 values a and b with a + b representable, Bits::from(a) +
\* Bits::from(b) has the operands' length and converts back to a + b.
C16_AddIsBinaryAddition ==
    \A a \in AddSamples, b \in AddSamples :
        (/\ last.op = "Bits.add"
         /\ a + b <= get_max("u8")
         /\ last.pre_bits = Bits_from("u8", a)
         /\ last.arg = Bits_from("u8", b)) =>
            /\ ~panicked
            /\ Len(bits) = Len(last.pre_bits)
            /\ Int_from("u8", bits) = a + b

\* C17: for Bits a and b whose values in the 128-bit domain have a product
\* below 2^128, the value of a * b is the product of the values of a and b.
C17_MulIn128Bits ==
    last.op = "Bits.mul" =>
        LET p == Product(U128_from(last.pre_bits), U128_from(last.arg))
        IN  (\A k \in U128Bytes..(2 * U128Bytes - 1) : p[k] = 0) =>
                /\ ~panicked
                /\ \A k \in 0..(U128Bytes - 1) : Limb(U128_from(bits), k) = p[k]

(***************************************************************************)
(* Bits<T> and WrappedInteger<T> of lib.rs (C18, C19), checked under       *)
(* SpecWrapped and SpecVecBool.                                            *)
(***************************************************************************)
\* C18: after any sequence of public operations of Bits<T>, bit(i) equals
\* as_integer().bit(i) for every index i <= max_bit_index.
C18_IntegerAndVecInSync ==
    ~panicked =>
        \A i \in Addressable(ty) :
            LET b == BitsT(int, bits)
            IN  /\ ~BitsT_bit(b, i).panic
                /\ BitsT_bit(b, i).ret = bit(ty, BitsT_as_integer(b), i).ret

\* C19 as stated: integer -> Vec<bool> -> integer gives back every value v,
\* the negative values of the signed types included.
C19_RoundTripEveryValue ==
    (last.op = "WrappedInteger::from" /\ last.prev_op = "Vec::from") =>
        /\ ~panicked
        /\ int = last.pre_int

\* C19, amended: integer -> Vec<bool> -> integer gives back every value
\* v >= 0; the vector has no element for the sign bit, so a negative v comes
\* back as v - T::MIN, its low max_settable_bits digits.
C19_RoundTripNonNegative ==
    (last.op = "WrappedInteger::from" /\ last.prev_op = "Vec::from") =>
        /\ ~panicked
        /\ last.pre_int >= 0 => int = last.pre_int
        /\ last.pre_int < 0 => int = last.pre_int - get_min(ty)

\* a round trip of a positive value of a signed type with several digits set
C19_Witness ==
    /\ last.op = "WrappedInteger::from" /\ last.prev_op = "Vec::from"
    /\ ty \in SignedTypes
    /\ last.pre_int > 1
    /\ int = last.pre_int
    /\ ~panicked

(***************************************************************************)
(* Byte conversion of a Bits that is not whole bytes (C20), checked under  *)
(* SpecBytes.                                                              *)
(***************************************************************************)
\* C20: to_be_bytes, to_le_bytes, to_be_bytes_of_le_bits and
\* to_le_bytes_of_le_bits of a Bits whose length is not a multiple of 8
\* panic instead of returning a byte array.
C20_PartialByteFails ==
    (/\ last.op \in {"to_be_bytes", "to_le_bytes",
                     "to_be_bytes_of_le_bits", "to_le_bytes_of_le_bits"}
     /\ Len(last.pre_bits) % 8 # 0) => panicked

(***************************************************************************)
(* A single Bit (C22 - C25, C29), checked under SpecBit.                   *)
(***************************************************************************)
\* C22: for every pair of Bit values AND, OR, XOR and NOT give the standard
\* boolean results, and &=, |=, ^= leave the left operand equal to what the
\* binary operator returns.
C22_BitTruthTables ==
    LET a == last.pre_bits[1]
        b == last.value
    IN  /\ last.op \in {"Bit.bitand", "Bit.bitand_assign"} => bits[1] = (a /\ b)
        /\ last.op \in {"Bit.bitor", "Bit.bitor_assign"} => bits[1] = (a \/ b)
        /\ last.op \in {"Bit.bitxor", "Bit.bitxor_assign"} => bits[1] = (a # b)
        /\ last.op = "Bit.not" => bits[1] = ~a

\* true ^ true by the binary operator, giving false
C22_Witness ==
    /\ last.op = "Bit.bitxor"
    /\ last.pre_bits[1] /\ last.value
    /\ ~bits[1]

\* C23: a * b is a AND b, a + b is a XOR b (true + true is false, without a
\* carry or a panic), and a - b is true only for a true and b false.
C23_BitArithmetic ==
    LET a == last.pre_bits[1]
        b == last.value
    IN  /\ last.op = "Bit.mul" => bits[1] = (a /\ b)
        /\ last.op = "Bit.add" => ~panicked /\ bits[1] = (a # b)
        /\ last.op = "Bit.sub" => bits[1] = (a /\ ~b)

\* false * true, where the false-bit annihilates
C23_Witness ==
    /\ last.op = "Bit.mul"
    /\ ~last.pre_bits[1] /\ last.value
    /\ ~bits[1]

\* C24: Bit(x) shifted left or right by 0 is Bit(x) and by any count >= 1 is
\* the false-bit, for usize and u32 counts and for <<= and >>=; checked_shl
\* always returns Some of that Bit.
C24_BitShifts ==
    LET a == last.pre_bits[1]
        shifted == IF last.index = 0 THEN a ELSE FALSE
    IN  /\ last.op \in {"Bit.shl", "Bit.shl_u32", "Bit.shl_assign",
                        "Bit.shl_assign_u32", "Bit.shr", "Bit.shr_assign"} =>
               bits[1] = shifted
        /\ last.op = "Bit.checked_shl" =>
               last.ret /\ last.out = <<shifted>> /\ bits = last.pre_bits

\* the true-bit shifted right by 0, which stays true
C24_Witness ==
    /\ last.op = "Bit.shr"
    /\ last.index = 0
    /\ last.pre_bits[1] /\ bits[1]

\* C25: Bit(x) / Bit(true) is Bit(x), and Bit(x) / Bit(false) panics for both
\* values of x.
C25_BitDivision ==
    last.op = "Bit.div" =>
        IF last.value THEN ~panicked /\ bits = last.pre_bits
        ELSE panicked

\* a division by the false-bit
C25_Witness ==
    /\ last.op = "Bit.div"
    /\ ~last.value
    /\ panicked

\* C29: a Bit has bit_len 1 and bit(0) returns its value; bit(i) and
\* set_bit(i, b) with i >= 1 panic and leave the Bit as it was.
C29_BitIndexOutOfRange ==
    /\ last.op = "Bit.bit_len" => int = 1
    /\ (last.op = "Bit.bit" /\ last.index = 0) =>
           ~panicked /\ last.ret = last.pre_bits[1]
    /\ (last.op \in {"Bit.bit", "Bit.set_bit"} /\ last.index >= 1) =>
           panicked /\ bits = last.pre_bits

(***************************************************************************)
(* Zero and One of Bits (C21), checked under SpecZeroOne.                  *)
(***************************************************************************)
\* C21: Bits::zero() has only false-bits and is_zero() is true for it;
\* Bits::one() has the length of Bits::zero(), exactly one true-bit, at the
\* last index, and is_one() is true for it.
C21_ZeroAndOne ==
    /\ last.op = "Bits::zero" => \A i \in 1..Len(bits) : ~bits[i]
    /\ (last.op = "Bits.is_zero" /\ last.prev_op = "Bits::zero") => last.ret
    /\ last.op = "Bits::one" =>
          /\ ~panicked
          /\ Len(bits) = Len(Bits_zero(int))
          /\ \A i \in 1..Len(bits) : bits[i] <=> (i = Len(bits))
    /\ (last.op = "Bits.is_one" /\ last.prev_op = "Bits::one") =>
          ~panicked /\ last.ret

(***************************************************************************)
(* set_bits of Bits (C28), checked under SpecSetBits.                      *)
(***************************************************************************)
\* C28: set_bits(start, src) on a Bits of length n with start + len(src) <= n
\* sets position start + k to src[k] for every k < len(src) and leaves every
\* other position and the length unchanged.
C28_SetBitsFrame ==
    (/\ last.op = "Bits.set_bits"
     /\ last.index + Len(last.arg) <= Len(last.pre_bits)) =>
        /\ ~panicked
        /\ Len(bits) = Len(last.pre_bits)
        /\ \A p \in 0..(Len(bits) - 1) :
              bits[p + 1] =
                  IF last.index <= p /\ p < last.index + Len(last.arg)
                  THEN last.arg[p - last.index + 1]
                  ELSE last.pre_bits[p + 1]

\* two bits written inside a longer Bits, changing both and sparing a true-bit
C28_Witness ==
    /\ last.op = "Bits.set_bits"
    /\ last.index = 1 /\ Len(last.arg) = 2 /\ Len(last.pre_bits) = 3
    /\ last.arg[1] # last.pre_bits[2] /\ last.arg[2] # last.pre_bits[3]
    /\ last.pre_bits[1] /\ bits[1]
    /\ ~panicked

(***************************************************************************)
(* Bits<T> under set_bit alone (C26), checked under SpecSetBitOnly.        *)
(***************************************************************************)
\* C26: for a Bits<T> built by a constructor, set_bit calls with
\* i <= max_bit_index keep the vector and the integer in agreement at every
\* index, keep the vector's length at max_settable_bits, and each call
\* changes no bit other than bit i in either of the two.
C26_SetBitKeepsSync ==
    ~panicked =>
        /\ Len(bits) = max_settable_bits(ty)
        /\ \A i \in Addressable(ty) : bits[i + 1] = bit(ty, int, i).ret
        /\ (last.op = "BitsT.set_bit" /\ last.index <= max_bit_index(ty)) =>
              /\ \A j \in Addressable(ty) \ {last.index} :
                    /\ bits[j + 1] = last.pre_bits[j + 1]
                    /\ bit(ty, int, j).ret = bit(ty, last.pre_int, j).ret
              /\ (int < 0) = (last.pre_int < 0)

\* a second set_bit in a row, on a negative i8, that flips the bit it names
C26_Witness ==
    /\ last.op = "BitsT.set_bit" /\ last.prev_op = "BitsT.set_bit"
    /\ ty = "i8" /\ last.pre_int < 0
    /\ last.index <= max_bit_index(ty)
    /\ bits[last.index + 1] # last.pre_bits[last.index + 1]
    /\ int # last.pre_int
    /\ ~panicked

(***************************************************************************)
(* Grouping of bits into bytes (C27), checked under SpecBytes.             *)
(***************************************************************************)
\* b with the bit at index p complemented
Flipped(b, p) == [b EXCEPT ![p + 1] = ~b[p + 1]]

\* C27: for a Bits of length 8n, to_be_bytes and to_be_bytes_of_le_bits
\* return exactly n bytes, and byte k is determined by exactly the bits at
\* indices 8k..8k+7: complementing one of those changes byte k, and
\* complementing any other bit leaves byte k as it is.
C27_BytesGroupEightBits ==
    (/\ last.op \in {"to_be_bytes", "to_be_bytes_of_le_bits"}
     /\ Len(last.pre_bits) % 8 = 0) =>
        /\ Len(bytes) = Len(last.pre_bits) \div 8
        /\ \A k \in 0..(Len(bytes) - 1), p \in 0..(Len(last.pre_bits) - 1) :
              LET other == IF last.op = "to_be_bytes"
                           THEN to_be_bytes(Flipped(last.pre_bits, p))
                           ELSE to_be_bytes_of_le_bits(Flipped(last.pre_bits, p))
              IN  (other[k + 1] # bytes[k + 1]) <=> (p \div 8 = k)

(***************************************************************************)
(* Bits as an Iterator (C30), checked under SpecIter.                      *)
(***************************************************************************)
\* C30: next() removes and returns the current last bit, so that a Bits of
\* length n yields its bits in reverse index order, is one shorter after each
\* call, is empty after exactly n calls, and every later next() returns None.
\* Here steps is the number of calls made and last.arg the Bits at the start.
C30_IteratesFromTheEnd ==
    last.op = "Bits.next" =>
        LET n == Len(last.arg)
        IN  /\ steps <= n =>
                  /\ last.ret
                  /\ last.out = <<last.arg[n - steps + 1]>>
                  /\ Len(bits) = Len(last.pre_bits) - 1
                  /\ bits = SubSeq(last.arg, 1, n - steps)
            /\ (bits = <<>>) <=> (steps >= n)
            /\ steps > n => ~last.ret /\ last.out = <<>> /\ bits = <<>>

\* the second call after a Bits of several bits is used up
C30_Witness ==
    /\ last.op = "Bits.next"
    /\ Len(last.arg) >= 2 /\ last.arg[1] /\ ~last.arg[Len(last.arg)]
    /\ steps = Len(last.arg) + 2
    /\ ~last.ret

====
